---- MODULE Spec2Model ----
(***************************************************************************)
(* bicrystal.py of gosam: parse_args, BicrystalOptions and main as a state *)
(* machine.  Lengths are exact integers (Angstrom, or nm for the requested *)
(* dimensions); angles are integer degrees, multiples of 90, so that       *)
(* theta/2 is a multiple of 45.  Python's 0-based dim[0..2], pos[0..2] are *)
(* the 1-based <<x, y, z>> here.  None is <<>>, a set field v is <<v>>.    *)
(***************************************************************************)
EXTENDS Integers, Sequences, FiniteSets, TLC

VARIABLES argv, env, pc, idx, opts, atoms, out, err

vars == <<argv, env, pc, idx, opts, atoms, out, err>>

----------------------------------------------------------------------------
(* Bounds of the explored inputs *)

MaxOpts == 2
MaxReq == 2
MaxMinDim == 5
MaxUpper == 2
MaxBottom == 1
MaxMiller == 1

(* Program constants *)

NmToA == 10
MonoZFactor == 2
MinArgc == 7

----------------------------------------------------------------------------
(* Python values *)

None == <<>>
Some(v) == <<v>>
Val(x) == x[1]

(* truth value of an optional number / flag, as in `if x:` *)
TruthyNum(x) == x # None /\ Val(x) # 0
TruthyFlag(x) == x # None /\ Val(x) = TRUE

Abs(n) == IF n < 0 THEN -n ELSE n
Min2(a, b) == IF a < b THEN a ELSE b

RECURSIVE GcdNat(_, _)
GcdNat(a, b) == IF b = 0 THEN a ELSE GcdNat(b, a % b)
Gcd(a, b) == GcdNat(Abs(a), Abs(b))

Dot(u, v) == u[1] * v[1] + u[2] * v[2] + u[3] * v[3]
Cross(u, v) == << u[2] * v[3] - u[3] * v[2],
                  u[3] * v[1] - u[1] * v[3],
                  u[1] * v[2] - u[2] * v[1] >>

(* math.ceil(float(a) / b) for b > 0, on exact numbers *)
CeilDiv(a, b) == -((-a) \div b)

----------------------------------------------------------------------------
(* BicrystalOptions.__init__ *)

NewOptions ==
    [axis |-> None, plane |-> None, sigma |-> None, theta |-> None,
     m |-> None, n |-> None, req_dim |-> None, vacuum |-> None, dim |-> None,
     fit |-> None, zfit |-> None, mono1 |-> None, mono2 |-> None,
     remove_dist |-> None, remove_dist2 |-> None, all |-> None,
     allall |-> None, lattice_name |-> "sic", lattice_shift |-> None,
     edge |-> None]

(* One command-line option: its keyword, the numbers after the colon and,  *)
(* for lattice:, the name after the colon.                                 *)
Token(name, arg, str) == [name |-> name, arg |-> arg, str |-> str]

Step(o, e) == [o |-> o, e |-> e]

(* `assert cond` followed by an assignment giving o2 *)
Asserted(cond, o, o2) == IF cond THEN Step(o2, "") ELSE Step(o, "AssertionError")

(* parse_args, the first `if` of the loop body: nofit *)
NofitStep(o, t) ==
    IF t.name = "nofit"
    THEN Asserted(o.fit = None, o, [o EXCEPT !.fit = Some(FALSE)])
    ELSE Step(o, "")

(* parse_args, the second `if ... elif ... else` of the loop body *)
ChainStep(o, t) ==
    CASE t.name = "nozfit" ->
           Asserted(o.zfit = None, o, [o EXCEPT !.zfit = Some(FALSE)])
      [] t.name = "mono1" ->
           Asserted(o.mono1 = None, o, [o EXCEPT !.mono1 = Some(TRUE)])
      [] t.name = "mono2" ->
           Asserted(o.mono2 = None, o, [o EXCEPT !.mono2 = Some(TRUE)])
      [] t.name = "all" ->
           Asserted(o.all = None /\ o.allall = None, o,
                    [o EXCEPT !.all = Some(TRUE)])
      [] t.name = "allall" ->
           Asserted(o.allall = None /\ o.all = None, o,
                    [o EXCEPT !.allall = Some(TRUE)])
      [] t.name = "remove" ->
           Asserted(o.remove_dist = None, o,
                    [o EXCEPT !.remove_dist = Some(t.arg[1])])
      [] t.name = "remove2" ->
           Asserted(o.remove_dist2 = None, o,
                    [o EXCEPT !.remove_dist2 = Some(t.arg[1])])
      [] t.name = "vacuum" ->
           Asserted(o.vacuum = None, o,
                    [o EXCEPT !.vacuum = Some(t.arg[1] * NmToA)])
      [] t.name = "lattice" ->
           Step([o EXCEPT !.lattice_name = t.str], "")
      [] t.name = "shift" ->
           IF Len(t.arg) # 3
           THEN Step(o, "ValueError: shift")
           ELSE Step([o EXCEPT !.lattice_shift = Some(t.arg)], "")
      [] t.name = "edge" ->
           IF Len(t.arg) # 2
           THEN Step(o, "ValueError: edge")
           ELSE Step([o EXCEPT !.edge = Some(<<t.arg[1], t.arg[2]>>)], "")
      [] OTHER -> Step(o, "ValueError: unknown option")

(* parse_args, one iteration of `for i in options` *)
OptionStep(o, t) ==
    LET first == NofitStep(o, t)
    IN  IF first.e # "" THEN first ELSE ChainStep(first.o, t)

(* parse_args, the default values after the loop *)
Defaults(o) ==
    [o EXCEPT !.fit = IF o.fit = None THEN Some(TRUE) ELSE @,
              !.zfit = IF o.zfit = None THEN Some(TRUE) ELSE @,
              !.mono1 = IF o.mono1 = None THEN Some(FALSE) ELSE @,
              !.mono2 = IF o.mono2 = None THEN Some(FALSE) ELSE @]

----------------------------------------------------------------------------
(* Numbers r + s * sqrt(2)/2 as pairs <<r, s>>: the sines and cosines of   *)
(* the multiples of 45 degrees.                                            *)

Cos45(deg) ==
    LET d == deg % 360
    IN  CASE d = 0 -> <<1, 0>>
          [] d = 45 -> <<0, 1>>
          [] d = 90 -> <<0, 0>>
          [] d = 135 -> <<0, -1>>
          [] d = 180 -> <<-1, 0>>
          [] d = 225 -> <<0, -1>>
          [] d = 270 -> <<0, 0>>
          [] d = 315 -> <<0, 1>>

Sin45(deg) == Cos45(deg + 270)

PScale(k, p) == <<k * p[1], k * p[2]>>
PAdd(p, q) == <<p[1] + q[1], p[2] + q[2]>>

(* length of an axis along one coordinate direction *)
AxisNorm(axis) == Abs(axis[1]) + Abs(axis[2]) + Abs(axis[3])
Unit(axis) == [i \in 1..3 |-> axis[i] \div AxisNorm(axis)]

(* rotmat.rodrigues(axis, angle) applied to v:                             *)
(*   R v = cos v + sin (k x v) + (1 - cos) (k . v) k,  k = axis / |axis|   *)
RodriguesApply(axis, deg, v) ==
    LET k == Unit(axis)
        c == Cos45(deg)
        s == Sin45(deg)
        kxv == Cross(k, v)
        kv == Dot(k, v)
    IN  [i \in 1..3 |->
            PAdd(PAdd(PScale(v[i], c), PScale(kxv[i], s)),
                 PScale(kv * k[i], <<1 - c[1], -c[2]>>))]

(* csl.scale_to_integers: the smallest integer vector along pv *)
ScaleToIntegers(pv) ==
    LET w == CASE \A i \in 1..3 : pv[i][2] = 0 -> [i \in 1..3 |-> pv[i][1]]
               [] \A i \in 1..3 : pv[i][1] = 0 -> [i \in 1..3 |-> pv[i][2]]
        g == Gcd(Gcd(w[1], w[2]), w[3])
    IN  IF g = 0 THEN w ELSE [i \in 1..3 |-> w[i] \div g]

(* parse_args, lines 185-196: the boundary plane from sys.argv[2].         *)
(* The result is an error, or the value of opts.plane.                     *)
(* the whole angle where the code halves it *)
HalfThetaWhole(theta) == theta

HalfTheta(theta) == theta \div 2

PlaneOf(arg, axis, theta) ==
    CASE arg.kind = "twist" -> [e |-> "", plane |-> Some(axis)]
      [] arg.kind = "median" ->
           IF Dot(arg.v, axis) # 0
           THEN [e |-> "ValueError: median plane", plane |-> None]
           ELSE [e |-> "",
                 plane |-> Some(ScaleToIntegers(
                               RodriguesApply(axis, HalfTheta(theta), arg.v)))]
      [] OTHER -> [e |-> "", plane |-> Some(arg.v)]

----------------------------------------------------------------------------
(* BicrystalOptions.find_dim *)

(* line 156: nm -> A *)
ToAngstrom(req_dim) == [i \in 1..3 |-> req_dim[i] * NmToA]

(* lines 157-158 *)
Doubled(o, dim) ==
    IF TruthyFlag(o.mono1) \/ TruthyFlag(o.mono2)
    THEN [dim EXCEPT ![3] = @ * MonoZFactor]
    ELSE dim

(* lines 159-163 *)
FitDim(o) ==
    IF TruthyFlag(o.fit)
    THEN IF TruthyFlag(o.zfit) THEN {1, 2, 3} ELSE {1, 2}
    ELSE {}

(* rounding down where the code rounds up *)
MultFloor(d, p) == IF d \div p = 0 THEN 1 ELSE d \div p

(* line 165: ceil(float(dim[i]) / min_dim[i]) or 1 *)
Mult(d, p) == IF CeilDiv(d, p) = 0 THEN 1 ELSE CeilDiv(d, p)

(* lines 164-166 *)
Fitted(o, dim, min_dim) ==
    [i \in 1..3 |-> IF i \in FitDim(o) THEN Mult(dim[i], min_dim[i]) * min_dim[i]
                                       ELSE dim[i]]

(* lines 168-169 *)
WithVacuum(o, dim) ==
    IF TruthyNum(o.vacuum) THEN [dim EXCEPT ![3] = @ + Val(o.vacuum)] ELSE dim

(* the vacuum added before the fitting instead of after it *)
FindDimVacuumFirst(o, min_dim) ==
    Fitted(o, WithVacuum(o, Doubled(o, ToAngstrom(Val(o.req_dim)))), min_dim)

FindDim(o, min_dim) ==
    WithVacuum(o, Fitted(o, Doubled(o, ToAngstrom(Val(o.req_dim))), min_dim))

----------------------------------------------------------------------------
(* Atoms: species name and position; `grain` records which monocrystal     *)
(* generated the atom ("u" upper, "b" bottom).                             *)

Atom(name, grain, pos) == [name |-> name, grain |-> grain, pos |-> pos]

(* the grains concatenated the other way round *)
BicrystalAtomsBottomFirst(upper, bottom) == bottom \o upper

(* Bicrystal.generate_atoms, lines 83-84 *)
BicrystalAtoms(upper, bottom) == upper \o bottom

(* periodic distance along one axis of length L *)
Wrap(d, L) == IF L > 0 THEN Min2(Abs(d) % L, L - (Abs(d) % L)) ELSE Abs(d)

Dist2(a, b, pbc) ==
    LET dx == Wrap(a.pos[1] - b.pos[1], pbc[1])
        dy == Wrap(a.pos[2] - b.pos[2], pbc[2])
        dz == Wrap(a.pos[3] - b.pos[3], pbc[3])
    IN  dx * dx + dy * dy + dz * dz

IsClose(a, b, dist, pbc) == Dist2(a, b, pbc) < dist * dist

(* remove_close_neighbours: of every pair closer than dist the atom met    *)
(* first is kept and the later one removed.                                *)
RECURSIVE KeepFar(_, _, _, _)
KeepFar(kept, rest, dist, pbc) ==
    IF rest = <<>> THEN kept
    ELSE LET a == Head(rest)
         IN  IF \E j \in 1..Len(kept) : IsClose(kept[j], a, dist, pbc)
             THEN KeepFar(kept, Tail(rest), dist, pbc)
             ELSE KeepFar(Append(kept, a), Tail(rest), dist, pbc)

RemoveCloseNeighbours(list, dist, pbc) == KeepFar(<<>>, list, dist, pbc)

(* main, lines 332-339: the partition by the first atom's species *)
AAtoms(list) == SelectSeq(list, LAMBDA a : a.name = list[1].name)
BAtoms(list) == SelectSeq(list, LAMBDA a : a.name # list[1].name)

(* main, lines 349-350: the indices selected by edge:z1,z2, ascending *)
EdgeSelected(a, pbc, z1, z2) ==
    /\ 0 < a.pos[2]
    /\ 2 * a.pos[2] <= pbc[2]
    /\ z1 < a.pos[3]
    /\ a.pos[3] < z2

Sel(list, pbc, z1, z2) ==
    SelectSeq([i \in 1..Len(list) |-> i],
              LAMBDA i : EdgeSelected(list[i], pbc, z1, z2))

Reversed(s) == [i \in 1..Len(s) |-> s[Len(s) + 1 - i]]

(* del list[i]; descending indices are always in range *)
DelAt(list, i) ==
    IF i \in 1..Len(list)
    THEN SubSeq(list, 1, i - 1) \o SubSeq(list, i + 1, Len(list))
    ELSE list

RECURSIVE DelEach(_, _)
DelEach(list, order) ==
    IF order = <<>> THEN list
    ELSE DelEach(DelAt(list, Head(order)), Tail(order))

(* deleting from the lowest index up *)
DeletionOrderAscending(sel) == sel

(* main, line 352: the order in which the selected indices are deleted *)
DeletionOrder(sel) == Reversed(sel)

(* main, lines 347-353 *)
EdgeCarved(list, pbc, z1, z2) ==
    DelEach(list, DeletionOrder(Sel(list, pbc, z1, z2)))

----------------------------------------------------------------------------
(* The run of main: pc is the statement main (or parse_args) is about to   *)
(* execute; "failed" is the run ended by sys.exit() or an exception.       *)

Fail(e) ==
    /\ pc' = "failed"
    /\ err' = e

(* parse_args, lines 175-181 *)
ParseAxis ==
    /\ pc = "parse_axis"
    /\ IF argv.argc < MinArgc
       THEN Fail("usage") /\ UNCHANGED opts
       ELSE /\ opts' = [opts EXCEPT !.axis = Some(argv.axis)]
            /\ pc' = "parse_sigma"
            /\ UNCHANGED err
    /\ UNCHANGED <<argv, env, idx, atoms, out>>

(* BicrystalOptions.parse_sigma_and_find_theta *)
SigmaOf(arg, e) ==
    CASE arg.kind = "theta" ->
           [e |-> "", sigma |-> None, theta |-> Some(arg.a), m |-> None, n |-> None]
      [] arg.kind \in {"sigma", "usigma"} ->
           IF e.find_theta = None
           THEN [e |-> "CSL not found", sigma |-> None, theta |-> None,
                 m |-> None, n |-> None]
           ELSE [e |-> "", sigma |-> Some(arg.a),
                 theta |-> Some(Val(e.find_theta)[1]),
                 m |-> Some(Val(e.find_theta)[2]),
                 n |-> Some(Val(e.find_theta)[3])]
      [] OTHER ->
           [e |-> "", sigma |-> Some(e.cubic[1]), theta |-> Some(e.cubic[2]),
            m |-> Some(arg.a), n |-> Some(arg.b)]

ParseSigma ==
    /\ pc = "parse_sigma"
    /\ LET r == SigmaOf(argv.sigma, env)
       IN  IF r.e # ""
           THEN Fail(r.e) /\ UNCHANGED opts
           ELSE /\ opts' = [opts EXCEPT !.sigma = r.sigma, !.theta = r.theta,
                                        !.m = r.m, !.n = r.n]
                /\ pc' = "parse_plane"
                /\ UNCHANGED err
    /\ UNCHANGED <<argv, env, idx, atoms, out>>

(* parse_args, lines 185-197 *)
ParsePlane ==
    /\ pc = "parse_plane"
    /\ LET r == PlaneOf(argv.plane, Val(opts.axis), Val(opts.theta))
       IN  IF r.e # ""
           THEN Fail(r.e) /\ UNCHANGED opts
           ELSE /\ opts' = [opts EXCEPT !.plane = r.plane]
                /\ pc' = "parse_dim"
                /\ UNCHANGED err
    /\ UNCHANGED <<argv, env, idx, atoms, out>>

(* parse_args, line 199 *)
ParseReqDim ==
    /\ pc = "parse_dim"
    /\ opts' = [opts EXCEPT !.req_dim = Some(argv.dims)]
    /\ pc' = "parse_opts"
    /\ idx' = 1
    /\ UNCHANGED <<argv, env, atoms, out, err>>

(* parse_args, lines 201-244: one iteration of the loop over the options *)
ParseOption ==
    /\ pc = "parse_opts"
    /\ idx <= Len(argv.options)
    /\ LET r == OptionStep(opts, argv.options[idx])
       IN  /\ opts' = r.o
           /\ IF r.e # ""
              THEN Fail(r.e) /\ UNCHANGED idx
              ELSE idx' = idx + 1 /\ UNCHANGED <<pc, err>>
    /\ UNCHANGED <<argv, env, atoms, out>>

(* parse_args, lines 245-258: the loop is over; defaults, return *)
ParseDefaults ==
    /\ pc = "parse_opts"
    /\ idx > Len(argv.options)
    /\ opts' = Defaults(opts)
    /\ pc' = "find_pbc"
    /\ UNCHANGED <<argv, env, idx, atoms, out, err>>

(* main, lines 266-288: rodrigues, find_csl_matrix, make_parallel_to_axis, *)
(* find_orthorhombic_pbc                                                   *)
FindPbc ==
    /\ pc = "find_pbc"
    /\ IF env.pbc_found
       THEN pc' = "check_ortho" /\ UNCHANGED err
       ELSE Fail("orthorhombic PBC not found")
    /\ UNCHANGED <<argv, env, idx, opts, atoms, out>>

(* the orthonormality assertion not evaluated *)
CheckOrthonormalSkipped ==
    /\ pc = "check_ortho"
    /\ pc' = "find_dim"
    /\ UNCHANGED <<argv, env, idx, opts, atoms, out, err>>

(* main, lines 290-299: the assertion that rot is orthonormal *)
CheckOrthonormal ==
    /\ pc = "check_ortho"
    /\ IF env.ortho_ok
       THEN pc' = "find_dim" /\ UNCHANGED err
       ELSE Fail("AssertionError: rot is not orthonormal")
    /\ UNCHANGED <<argv, env, idx, opts, atoms, out>>

(* main, lines 300-306: the lattice, its parameter a, opts.find_dim *)
MinDimA(e) == [i \in 1..3 |-> e.min_dim[i] * e.a]

CallFindDim ==
    /\ pc = "find_dim"
    /\ opts' = [opts EXCEPT !.dim = Some(FindDim(opts, MinDimA(env)))]
    /\ pc' = "generate"
    /\ UNCHANGED <<argv, env, idx, atoms, out, err>>

(* main, lines 315-325 *)
Generated(o, e) ==
    IF TruthyFlag(o.mono1) THEN e.upper
    ELSE IF TruthyFlag(o.mono2) THEN e.bottom
    ELSE BicrystalAtoms(e.upper, e.bottom)

GenerateAtoms ==
    /\ pc = "generate"
    /\ atoms' = Generated(opts, env)
    /\ pc' = "remove"
    /\ UNCHANGED <<argv, env, idx, opts, out, err>>

(* main, lines 327-329 *)
RemoveClose ==
    /\ pc = "remove"
    /\ atoms' = IF /\ ~TruthyFlag(opts.mono1)
                   /\ ~TruthyFlag(opts.mono2)
                   /\ opts.remove_dist # None
                   /\ Val(opts.remove_dist) > 0
                THEN RemoveCloseNeighbours(atoms, Val(opts.remove_dist),
                                           Val(opts.dim))
                ELSE atoms
    /\ pc' = "remove2"
    /\ UNCHANGED <<argv, env, idx, opts, out, err>>

(* main, lines 331-345 *)
Regrouped(list, dist, pbc) ==
    RemoveCloseNeighbours(AAtoms(list), dist, pbc)
        \o RemoveCloseNeighbours(BAtoms(list), dist, pbc)

RemoveSameSpecies ==
    /\ pc = "remove2"
    /\ IF ~TruthyNum(opts.remove_dist2)
       THEN pc' = "edge" /\ UNCHANGED <<atoms, err>>
       ELSE IF atoms = <<>>
       THEN Fail("IndexError") /\ UNCHANGED atoms
       ELSE IF BAtoms(atoms) = <<>>
       THEN /\ Fail("IndexError")
            /\ atoms' = RemoveCloseNeighbours(AAtoms(atoms),
                            Val(opts.remove_dist2), Val(opts.dim))
       ELSE /\ atoms' = Regrouped(atoms, Val(opts.remove_dist2), Val(opts.dim))
            /\ pc' = "edge"
            /\ UNCHANGED err
    /\ UNCHANGED <<argv, env, idx, opts, out>>

(* main, lines 347-353 *)
EdgeCarve ==
    /\ pc = "edge"
    /\ atoms' = IF opts.edge # None
                THEN EdgeCarved(atoms, Val(opts.dim),
                                Val(opts.edge)[1], Val(opts.edge)[2])
                ELSE atoms
    /\ pc' = "output"
    /\ UNCHANGED <<argv, env, idx, opts, out, err>>

(* main, lines 355-366 *)
OutputOf(o, list) ==
    IF TruthyFlag(o.all)
    THEN [action |-> "apply_all_possible_cutoffs_to_stgb",
          single_cutoff |-> TRUE, atoms |-> list]
    ELSE IF TruthyFlag(o.allall)
    THEN [action |-> "apply_all_possible_cutoffs_to_stgb",
          single_cutoff |-> FALSE, atoms |-> list]
    ELSE [action |-> "export_atoms", single_cutoff |-> FALSE, atoms |-> list]

Output ==
    /\ pc = "output"
    /\ out' = Append(out, OutputOf(opts, atoms))
    /\ pc' = "done"
    /\ UNCHANGED <<argv, env, idx, opts, atoms, err>>

Next ==
    \/ ParseAxis
    \/ ParseSigma
    \/ ParsePlane
    \/ ParseReqDim
    \/ ParseOption
    \/ ParseDefaults
    \/ FindPbc
    \/ CheckOrthonormal
    \/ CallFindDim
    \/ GenerateAtoms
    \/ RemoveClose
    \/ RemoveSameSpecies
    \/ EdgeCarve
    \/ Output

----------------------------------------------------------------------------
(* The explored command lines and collaborator results.  env holds what    *)
(* the collaborators (csl, monocryst) return for the command line: they    *)
(* are functions of it, fixed for the run.                                 *)

SeqsUpTo(S, n) == UNION {[1..k -> S] : k \in 0..n}

Flag(name) == Token(name, <<>>, "")

OptionTokens ==
    {Flag(n) : n \in {"nofit", "nozfit", "mono1", "mono2", "all", "allall",
                      "bogus"}}
    \cup {Token("remove", <<1>>, ""), Token("remove2", <<1>>, ""),
          Token("vacuum", <<1>>, ""),
          Token("lattice", <<>>, "sic"), Token("lattice", <<>>, "fcc"),
          Token("shift", <<0, 0, 0>>, ""), Token("shift", <<1, 0, 0>>, ""),
          Token("shift", <<0, 0>>, ""),
          Token("edge", <<1, 3>>, ""), Token("edge", <<2, 3>>, ""),
          Token("edge", <<1>>, "")}

DefaultAtoms(g) == <<Atom("Si", g, <<0, 6, 2>>)>>

(* len(sys.argv) of a command line with the options os: the program, six   *)
(* positional arguments, the options and the output file                   *)
Argc(os) == MinArgc + 1 + Len(os)

WithOptions(a, os) == [a EXCEPT !.options = os, !.argc = Argc(os)]

DefaultArgv ==
    [argc |-> Argc(<<>>), axis |-> <<0, 0, 1>>,
     plane |-> [kind |-> "twist", v |-> <<0, 0, 0>>],
     sigma |-> [kind |-> "theta", a |-> 90, b |-> 0],
     dims |-> <<1, 1, 1>>, options |-> <<>>]

DefaultEnv ==
    [find_theta |-> Some(<<90, 2, 1>>), cubic |-> <<5, 180>>,
     pbc_found |-> TRUE, ortho_ok |-> TRUE, min_dim |-> <<3, 4, 5>>, a |-> 1,
     upper |-> DefaultAtoms("u"), bottom |-> DefaultAtoms("b")]

Input(a, e) == [argv |-> a, env |-> e]

(* every option list of at most MaxOpts options *)
OptionInputs ==
    {Input(WithOptions(DefaultArgv, os), DefaultEnv) :
        os \in SeqsUpTo(OptionTokens, MaxOpts)}

(* axes, planes and rotation specifications *)
Axes == {<<0, 0, 1>>, <<1, 0, 0>>, <<0, -2, 0>>}
Millers == {v \in [1..3 -> (-MaxMiller)..MaxMiller] : v # <<0, 0, 0>>}
PlaneArgs ==
    {[kind |-> "twist", v |-> <<0, 0, 0>>]}
    \cup {[kind |-> k, v |-> v] : k \in {"median", "miller"}, v \in Millers}
SigmaCases ==
    {<<[kind |-> "theta", a |-> t, b |-> 0], Some(<<90, 2, 1>>)>> :
        t \in {0, 90, 180, 270}}
    \cup {<<[kind |-> "sigma", a |-> 5, b |-> 0], None>>,
          <<[kind |-> "sigma", a |-> 5, b |-> 0], Some(<<90, 2, 1>>)>>,
          <<[kind |-> "usigma", a |-> 5, b |-> 0], Some(<<270, 2, 1>>)>>,
          <<[kind |-> "mn", a |-> 2, b |-> 1], None>>}
PlaneInputs ==
    {Input([DefaultArgv EXCEPT !.axis = ax, !.plane = p, !.sigma = s[1]],
           [DefaultEnv EXCEPT !.find_theta = s[2]]) :
        ax \in Axes, p \in PlaneArgs, s \in SigmaCases}

(* requested dimensions and minimal periodic lengths *)
ReqDims == [1..3 -> (-1)..MaxReq]
MinDims == {<<p, p + 1, p + 2>> : p \in 3..MaxMinDim}
DimOptions ==
    {<<>>, <<Flag("nozfit")>>, <<Flag("mono1")>>, <<Flag("mono2")>>,
     <<Token("vacuum", <<1>>, "")>>,
     <<Flag("mono1"), Token("vacuum", <<1>>, "")>>,
     <<Flag("nozfit"), Token("vacuum", <<1>>, "")>>,
     <<Flag("nozfit"), Token("vacuum", <<1>>, ""), Flag("mono2")>>}
DimInputs ==
    {Input(WithOptions([DefaultArgv EXCEPT !.dims = d], os),
           [DefaultEnv EXCEPT !.min_dim = p, !.a = a]) :
        d \in ReqDims, p \in MinDims, a \in {1, 2}, os \in DimOptions}

(* atom lists for edge carving: y at 0, at and above half of the box,      *)
(* z at and between the bounds                                             *)
EdgePositions ==
    {<<0, 0, 2>>, <<0, 6, 2>>, <<0, 7, 2>>, <<0, 6, 1>>, <<0, 6, 3>>}
EdgeAtoms(g) == {Atom("Si", g, p) : p \in EdgePositions}
EdgeOptions ==
    {<<Token("edge", <<1, 3>>, "")>>, <<Token("edge", <<3, 1>>, "")>>,
     <<Token("edge", <<2, 3>>, "")>>}
EdgeInputs ==
    {Input(WithOptions(DefaultArgv, os),
           [DefaultEnv EXCEPT !.upper = u, !.bottom = b, !.min_dim = p]) :
        os \in EdgeOptions, u \in SeqsUpTo(EdgeAtoms("u"), MaxUpper),
        b \in SeqsUpTo(EdgeAtoms("b"), MaxBottom),
        p \in {<<3, 4, 5>>, <<3, 13, 5>>}}

(* atom lists of two species for the removal steps *)
GrainAtoms(g) ==
    {Atom("Si", g, <<0, 6, 2>>), Atom("C", g, <<0, 6, 2>>),
     Atom("Si", g, <<0, 6, 5>>), Atom("C", g, <<0, 7, 5>>)}
PostOptions ==
    {r \o r2 \o e :
        r \in {<<>>, <<Token("remove", <<1>>, "")>>},
        r2 \in {<<>>, <<Token("remove2", <<1>>, "")>>},
        e \in {<<>>, <<Token("edge", <<1, 3>>, "")>>}}
PostInputs ==
    {Input(WithOptions(DefaultArgv, os),
           [DefaultEnv EXCEPT !.upper = u, !.bottom = b]) :
        os \in PostOptions, u \in SeqsUpTo(GrainAtoms("u"), MaxUpper),
        b \in SeqsUpTo(GrainAtoms("b"), MaxBottom)}

(* failures of the collaborators and of the argument count *)
FailureInputs ==
    {Input([DefaultArgv EXCEPT !.argc = MinArgc - 1], DefaultEnv)}
    \cup {Input(WithOptions(DefaultArgv, os),
                [DefaultEnv EXCEPT !.pbc_found = f, !.ortho_ok = k]) :
              f \in BOOLEAN, k \in BOOLEAN,
              os \in {<<>>, <<Flag("all")>>, <<Flag("allall")>>}}

Given(inputs) == \E i \in inputs : argv = i.argv /\ env = i.env

Init ==
    /\ \/ Given(OptionInputs)
       \/ Given(PlaneInputs)
       \/ Given(DimInputs)
       \/ Given(EdgeInputs)
       \/ Given(PostInputs)
       \/ Given(FailureInputs)
    /\ pc = "parse_axis"
    /\ idx = 0
    /\ opts = NewOptions
    /\ atoms = <<>>
    /\ out = <<>>
    /\ err = ""

Spec == Init /\ [][Next]_vars

----------------------------------------------------------------------------
(* Vocabulary of the properties *)

Options == argv.options
Count(name) == Cardinality({i \in 1..Len(Options) : Options[i].name = name})
Has(name) == Count(name) > 0

ParseErrors ==
    {"usage", "CSL not found", "ValueError: median plane", "AssertionError",
     "ValueError: shift", "ValueError: edge", "ValueError: unknown option"}

(* parse_args has returned its options to main *)
ParseReturned ==
    \/ pc \in {"find_pbc", "check_ortho", "find_dim", "generate", "remove",
               "remove2", "edge", "output", "done"}
    \/ pc = "failed" /\ err \notin ParseErrors

(* find_dim has set opts.dim *)
DimSet == opts.dim # None

MonoMode == TruthyFlag(opts.mono1) \/ TruthyFlag(opts.mono2)
BicrystalMode == ParseReturned /\ ~MonoMode

(* the length requested for axis i in Angstrom, doubled in z for a         *)
(* monocrystal, before any vacuum                                          *)
Requested(i) ==
    IF i = 3 /\ (Has("mono1") \/ Has("mono2"))
    THEN 2 * 10 * argv.dims[i]
    ELSE 10 * argv.dims[i]

(* the vacuum margin in Angstrom *)
Vacuum ==
    IF Has("vacuum")
    THEN 10 * (CHOOSE t \in {Options[i] : i \in 1..Len(Options)} :
                   t.name = "vacuum").arg[1]
    ELSE 0

Period(i) == env.min_dim[i] * env.a

(* the length of axis i that find_dim produced, without the vacuum *)
Result(i) == IF i = 3 THEN Val(opts.dim)[3] - Vacuum ELSE Val(opts.dim)[i]

FittedAxes ==
    IF TruthyFlag(opts.fit)
    THEN IF TruthyFlag(opts.zfit) THEN {1, 2, 3} ELSE {1, 2}
    ELSE {}

(* r is k * p for the smallest integer k >= 1 with k * p >= L *)
SmallestMultiple(r, L, p) ==
    /\ r % p = 0
    /\ r >= p
    /\ r >= L
    /\ r - p < L

----------------------------------------------------------------------------
(* C1: for every fitted axis, every requested length L > 0 and every       *)
(* minimal periodic length p > 0, find_dim yields k * p for the smallest   *)
(* integer k >= 1 with k * p >= L; a requested length that is an exact     *)
(* multiple of p is returned unchanged.                                    *)
C1_FitRoundsUp ==
    DimSet =>
        \A i \in FittedAxes :
            (Requested(i) > 0 /\ Period(i) > 0) =>
                /\ SmallestMultiple(Result(i), Requested(i), Period(i))
                /\ (Requested(i) % Period(i) = 0 => Result(i) = Requested(i))

(* one axis requested at exactly its period and kept, another rounded up *)
C1_Witness ==
    /\ DimSet
    /\ FittedAxes = {1, 2, 3}
    /\ \E i \in 1..3 : Requested(i) = Period(i) /\ Result(i) = Requested(i)
    /\ \E i \in 1..3 : /\ Requested(i) > 0
                       /\ Requested(i) % Period(i) # 0
                       /\ Result(i) > Requested(i)

----------------------------------------------------------------------------
(* C2 (as claimed): a command line that is valid without `nofit` and holds *)
(* `nofit` exactly once is accepted by parse_args with fit = False, and    *)
(* find_dim then leaves x, y and z at the requested lengths (z plus the    *)
(* vacuum).                                                                *)
KnownNames ==
    {"nofit", "nozfit", "mono1", "mono2", "all", "allall", "remove",
     "remove2", "vacuum", "lattice", "shift", "edge"}

WellFormed(t) ==
    /\ t.name \in KnownNames
    /\ t.name = "shift" => Len(t.arg) = 3
    /\ t.name = "edge" => Len(t.arg) = 2

ValidOptionList ==
    /\ \A i \in 1..Len(Options) : WellFormed(Options[i])
    /\ \A n \in KnownNames : Count(n) <= 1
    /\ ~(Has("all") /\ Has("allall"))
    /\ ~(Has("mono1") /\ Has("mono2"))

C2_NofitAccepted ==
    (Count("nofit") = 1 /\ ValidOptionList) =>
        /\ ~(pc = "failed" /\ err \in ParseErrors)
        /\ ParseReturned => opts.fit = Some(FALSE)
        /\ DimSet => \A i \in 1..3 :
               Val(opts.dim)[i] = Requested(i) + (IF i = 3 THEN Vacuum ELSE 0)

----------------------------------------------------------------------------
(* C3: edge carving removes exactly the atoms with 0 < y <= pbc_y / 2 and  *)
(* z1 < z < z2 of the list before the removal; every other atom stays,     *)
(* unmodified and in its relative order, and the length decreases by the   *)
(* number of atoms that satisfied the predicate.                           *)
InEdge(a) ==
    /\ 0 < a.pos[2]
    /\ 2 * a.pos[2] <= Val(opts.dim)[2]
    /\ Val(opts.edge)[1] < a.pos[3]
    /\ a.pos[3] < Val(opts.edge)[2]

NotInEdge(a) == ~InEdge(a)

C3_EdgeCarving ==
    [][(pc = "edge" /\ opts.edge # None) =>
          /\ atoms' = SelectSeq(atoms, NotInEdge)
          /\ Len(atoms') =
                Len(atoms) - Cardinality({i \in 1..Len(atoms) : InEdge(atoms[i])})
      ]_vars

(* two atoms carved out from a list whose last atom is kept *)
C3_Witness ==
    /\ pc = "output"
    /\ Len(Options) = 1
    /\ opts.edge # None
    /\ Len(atoms) >= 1
    /\ Len(env.upper \o env.bottom) - Len(atoms) >= 2
    /\ atoms[Len(atoms)] = env.bottom[Len(env.bottom)]

----------------------------------------------------------------------------
(* C4 (as claimed): in bicrystal mode, whatever the options remove,        *)
(* remove2 and edge, the list that reaches the output step has every       *)
(* upper-grain atom before every bottom-grain atom.                        *)
UpperFirst(list) ==
    \A i \in 1..Len(list) : \A j \in 1..Len(list) :
        (list[i].grain = "b" /\ list[j].grain = "u") => j < i

AtOutput == pc \in {"output", "done"}

C4_UpperBeforeBottom == (AtOutput /\ BicrystalMode) => UpperFirst(atoms)

(* C4 (amended): in bicrystal mode the list that reaches the output step   *)
(* has every upper-grain atom before every bottom-grain atom when remove2  *)
(* is not applied; when remove2 is applied the list is the atoms of the    *)
(* first atom's species followed by the atoms of the other species, with   *)
(* upper-grain atoms before bottom-grain atoms within each species.        *)
OfSpecies(list, name) == SelectSeq(list, LAMBDA a : a.name = name)

SpeciesGrouped(list) ==
    \A i \in 1..Len(list) : \A j \in 1..Len(list) :
        (list[i].name = list[1].name /\ list[j].name # list[1].name) => i < j

C4_OrderAtOutput ==
    (AtOutput /\ BicrystalMode) =>
        IF TruthyNum(opts.remove_dist2)
        THEN /\ SpeciesGrouped(atoms)
             /\ \A n \in {"Si", "C"} : UpperFirst(OfSpecies(atoms, n))
        ELSE UpperFirst(atoms)

(* remove and edge both applied to a list with atoms of both grains left *)
C4_Witness ==
    /\ pc = "output"
    /\ BicrystalMode
    /\ TruthyNum(opts.remove_dist)
    /\ opts.edge # None
    /\ ~TruthyNum(opts.remove_dist2)
    /\ Len(atoms) < Len(env.upper \o env.bottom)
    /\ \E i \in 1..Len(atoms) : atoms[i].grain = "u"
    /\ \E i \in 1..Len(atoms) : atoms[i].grain = "b"

----------------------------------------------------------------------------
(* C5: find_dim doubles z (monocrystal mode), then fits, then adds the     *)
(* vacuum: final z = fit(2 * 10 * req_z) + vacuum in monocrystal mode and  *)
(* fit(10 * req_z) + vacuum in bicrystal mode, fit being the identity when *)
(* z is not fitted; x and y are fitted only, never doubled nor increased   *)
(* by the vacuum.                                                          *)
FitOf(i, L) ==
    IF i \notin FittedAxes THEN L
    ELSE IF L > 0
    THEN CHOOSE r \in L..(L + Period(i)) : SmallestMultiple(r, L, Period(i))
    ELSE Mult(L, Period(i)) * Period(i)

C5_DoubleFitVacuum ==
    DimSet =>
        /\ Val(opts.dim)[3] =
              FitOf(3, (IF MonoMode THEN 2 ELSE 1) * 10 * argv.dims[3]) + Vacuum
        /\ Val(opts.dim)[1] = FitOf(1, 10 * argv.dims[1])
        /\ Val(opts.dim)[2] = FitOf(2, 10 * argv.dims[2])

(* a monocrystal with vacuum whose doubled z is rounded up, where adding   *)
(* the vacuum before the fitting would have reached the next multiple      *)
C5_Witness ==
    /\ DimSet
    /\ MonoMode
    /\ Vacuum > 0
    /\ 3 \in FittedAxes
    /\ argv.dims[3] > 0
    /\ Val(opts.dim)[3] - Vacuum > 2 * 10 * argv.dims[3]
    /\ (Val(opts.dim)[3] - Vacuum) % Period(3) = 0
    /\ Val(opts.dim)[3] % Period(3) # 0

----------------------------------------------------------------------------
(* C7 (as claimed): the multiple applied to a fitted axis is at least 1,   *)
(* also for a requested length that is zero or negative: every fitted      *)
(* dimension is >= the minimal periodic length of its axis.                *)
C7_MultipleAtLeastOne ==
    DimSet => \A i \in FittedAxes : Period(i) > 0 => Result(i) >= Period(i)

----------------------------------------------------------------------------
(* C6 (as claimed): an option list in which one option kind occurs twice   *)
(* is never accepted by parse_args.                                        *)
C6_NoDuplicateAccepted ==
    ParseReturned => \A n \in KnownNames : Count(n) <= 1

----------------------------------------------------------------------------
(* C10 (as claimed): parse_args never returns options with both all and    *)
(* allall set, nor with both mono1 and mono2 set.                          *)
C10_ExclusiveOptions ==
    ParseReturned =>
        /\ ~(TruthyFlag(opts.all) /\ TruthyFlag(opts.allall))
        /\ ~(TruthyFlag(opts.mono1) /\ TruthyFlag(opts.mono2))

----------------------------------------------------------------------------
(* C8: a run in which a fatal condition occurs (short or malformed command *)
(* line, unknown option, CSL not found, axis not in the median plane,      *)
(* orthorhombic PBC not found, rot not orthonormal) never performs an      *)
(* output action; an output action is performed only once, by a run that   *)
(* has completed every earlier step, on the post-processed atom list.      *)
FatalInput ==
    \/ argv.argc < MinArgc
    \/ \E i \in 1..Len(Options) : ~WellFormed(Options[i])
    \/ argv.sigma.kind \in {"sigma", "usigma"} /\ env.find_theta = None
    \/ argv.plane.kind = "median" /\ Dot(argv.plane.v, argv.axis) # 0
    \/ ~env.pbc_found
    \/ ~env.ortho_ok

C8_NoOutputOnFatalError ==
    /\ FatalInput => out = <<>>
    /\ pc = "failed" => out = <<>>
    /\ out # <<>> =>
          /\ pc = "done"
          /\ err = ""
          /\ Len(out) = 1
          /\ DimSet
          /\ out[1].atoms = atoms

(* a run that ends in an output action *)
C8_Witness ==
    /\ pc = "done"
    /\ Len(out) = 1
    /\ out[1].action = "apply_all_possible_cutoffs_to_stgb"
    /\ ~FatalInput

----------------------------------------------------------------------------
(* C9: for a median plane ('m' + Miller indices) parsing raises exactly    *)
(* when the plane vector times the axis is not zero, and opts.plane is     *)
(* then not computed; otherwise the boundary plane is the plane vector     *)
(* rotated by theta / 2 about the axis, as the smallest integer vector.    *)
(* For 'twist' the boundary plane is the rotation axis.                    *)
PlaneStepDone ==
    /\ pc \notin {"parse_axis", "parse_sigma", "parse_plane"}
    /\ ~(pc = "failed" /\ err \in {"usage", "CSL not found"})

(* w is v turned by deg, a multiple of 45 degrees, about axis (both        *)
(* perpendicular to it): dot = |v||w| cos, cross . axis = |v||w||axis| sin *)
TurnedBy(v, w, axis, deg) ==
    LET d == Dot(v, w) * AxisNorm(axis)
        c == Dot(Cross(v, w), axis)
        a == deg % 360
    IN  /\ Dot(w, axis) = 0
        /\ CASE a = 0 -> c = 0 /\ d > 0
             [] a = 45 -> c = d /\ d > 0
             [] a = 90 -> d = 0 /\ c > 0
             [] a = 135 -> c = -d /\ c > 0
             [] a = 180 -> c = 0 /\ d < 0
             [] a = 225 -> c = d /\ d < 0
             [] a = 270 -> d = 0 /\ c < 0
             [] a = 315 -> c = -d /\ d > 0
             [] OTHER -> FALSE

Primitive(w) == Gcd(Gcd(w[1], w[2]), w[3]) = 1

C9_MedianPlane ==
    PlaneStepDone =>
        CASE argv.plane.kind = "twist" -> opts.plane = Some(argv.axis)
          [] argv.plane.kind = "median" ->
               IF Dot(argv.plane.v, argv.axis) # 0
               THEN /\ pc = "failed"
                    /\ err = "ValueError: median plane"
                    /\ opts.plane = None
               ELSE /\ err # "ValueError: median plane"
                    /\ opts.plane # None
                    /\ Primitive(Val(opts.plane))
                    /\ 2 * (Val(opts.theta) \div 2) = Val(opts.theta)
                    /\ TurnedBy(argv.plane.v, Val(opts.plane), argv.axis,
                                Val(opts.theta) \div 2)
          [] OTHER -> opts.plane = Some(argv.plane.v)

(* a median plane containing the axis, turned by 45 degrees and rescaled *)
C9_Witness ==
    /\ pc = "parse_dim"
    /\ argv.plane.kind = "median"
    /\ Val(opts.theta) = 90
    /\ Dot(argv.plane.v, argv.axis) = 0
    /\ opts.plane # Some(argv.plane.v)
    /\ Dot(argv.plane.v, argv.plane.v) = 2
    /\ Dot(Val(opts.plane), Val(opts.plane)) = 1

====
